---- MODULE Spec2Model ----
(***************************************************************************)
(* Model of legwork/source.py: the Source / Stationary / Evolving classes. *)
(*                                                                         *)
(* Numbers.  Eccentricities are integers counted in steps of the grid that *)
(* find_eccentric_transition scans: np.linspace(0.0, 0.2, ScanLen) has the *)
(* points 0, 1, .., ScanLen - 1, so e = 0.2 is ScanLen - 1 and e = 1 is    *)
(* EccOne = 5 * (ScanLen - 1).  Luminosities are integers with 100 for the *)
(* luminosity of a circular binary, tolerances are integers in percent,    *)
(* so `x < (1 - tol) * f` reads 100 * x < (100 - tol) * f.  Interpolated   *)
(* values are exact rationals <<numerator, denominator>>.                  *)
(***************************************************************************)
EXTENDS Integers, Sequences, FiniteSets

VARIABLES
    phase,              \* "args": before __init__, "ready": constructed, "failed": __init__ raised
    lum_info,           \* content of the packaged harmonics.npz table
    cls,                \* class of the object: "Source", "Stationary", "Evolving"
    ecc,                \* self.ecc, one eccentricity per source
    f_dot,              \* per source, the frequency drift per unit time that m_c, f_orb give
    stat_tol,           \* self.stat_tol
    n_sources,          \* self.n_sources
    _gw_lum_tol,        \* self._gw_lum_tol
    harmonics_required, \* self.harmonics_required (data of the interpolant)
    dominant_harmonic,  \* self.dominant_harmonic (data of the interpolant)
    ecc_tol,            \* self.ecc_tol
    snr,                \* self.snr
    op,                 \* name of the method called last
    ret,                \* what the last call returned
    raised,             \* the exception the last call raised, "none" otherwise
    calls,              \* the external formulas the last call invoked, in order
    last_tol,           \* the gw_lum_tol argument of __init__, then of the latest update_gw_lum_tol
    args,               \* the other arguments of __init__, until it has run
    lens,               \* len() of self.m_1, m_2, m_c, dist, f_orb, a
    interpolate_sc,     \* self.interpolate_sc
    _sc_params,         \* self._sc_params: a reference to a dict
    heap,               \* the content of the dict the caller keeps and may change
    sc,                 \* self.sc
    self_g,             \* self.g (g is the bucket index below)
    warned,             \* whether the last call printed the t_obs warning
    computed            \* the derived quantities __init__ has computed

attrs == <<cls, ecc, f_dot, stat_tol, n_sources, _gw_lum_tol, harmonics_required,
           dominant_harmonic, ecc_tol, snr, lens, interpolate_sc, _sc_params, sc, self_g>>
\* the sensitivity-curve and strain attributes, the caller's dict and the
\* constructor's arguments
conf == <<lens, interpolate_sc, _sc_params, sc, self_g, heap, args>>
vars == <<phase, lum_info, cls, ecc, f_dot, stat_tol, n_sources, _gw_lum_tol,
          harmonics_required, dominant_harmonic, ecc_tol, snr, op, ret, raised,
          calls, last_tol, args, lens, interpolate_sc, _sc_params, heap, sc, self_g,
          warned, computed>>

----------------------------------------------------------------------------
(* Bounds *)

MaxSources == 2
ScanLen == 4
BlockLen == 32

EccOne == 5 * (ScanLen - 1)
Unset == 0 - 1
None == << >>

\* gw_lum_tol values in percent; 100 leaves no crossing point in the scan
Tols == {0, 5, 100}
TObs == {4, 8}
StatTols == {20}
\* the sources a batch is drawn from, each an eccentricity and a drift rate
SourceTypes == { <<0, 0>>, <<1, 3>>, <<(EccOne \div 2) + 1, 3>>, <<EccOne - 1, 0>> }

----------------------------------------------------------------------------
(* utils.peters_f and utils.peters_g(2, .): Peters (1964), to second order *)
(* in the eccentricity: F(e) = 1 + (157/24) e^2, g(2, e) = 1 - 5 e^2       *)

peters_f(e) == 100 + (654 * e * e) \div (EccOne * EccOne)

peters_g2(e) == 100 - (500 * e * e) \div (EccOne * EccOne)

----------------------------------------------------------------------------
(* The harmonics.npz table.  A row of g_vals is stored sparsely: harmonic  *)
(* at[j] carries luminosity lum[j], every other harmonic carries 0.        *)

BigTable ==
    [e_range |-> <<0, EccOne \div 2, EccOne - 3, EccOne - 1>>,
     n_max   |-> 10000,
     g_vals  |-> << [at |-> <<2>>, lum |-> <<100>>],
                    [at |-> <<2, 3, 8, 12>>, lum |-> <<100, 70, 60, 12>>],
                    [at |-> <<2, 50, 150, 1000>>, lum |-> <<100, 270, 125, 23>>],
                    [at |-> <<2, 999, 9999>>, lum |-> <<100, 370, 166>>] >>]

OffsetTable ==
    [e_range |-> <<1, (EccOne \div 3) + 1, 2 * (EccOne \div 3) + 1>>,
     n_max   |-> 5,
     g_vals  |-> << [at |-> <<2>>, lum |-> <<100>>],
                    [at |-> <<2, 3, 4>>, lum |-> <<100, 60, 50>>],
                    [at |-> <<1, 2, 3>>, lum |-> <<250, 150, 60>>] >>]

Tables == {BigTable, OffsetTable}

RECURSIVE RowLum(_, _, _)
RowLum(row, n, j) ==
    IF j = 0 THEN 0
    ELSE (IF row.at[j] = n THEN row.lum[j] ELSE 0) + RowLum(row, n, j - 1)

\* g_vals[i][n - 1] of the code: grid point i (from 1), harmonic n (from 1)
g_vals(info, i, n) == RowLum(info.g_vals[i], n, Len(info.g_vals[i].at))

e_len(info) == Len(info.e_range)

f_vals(info, i) == peters_f(info.e_range[i])

----------------------------------------------------------------------------
(* Loops over up to n_max harmonics are evaluated in nested blocks of      *)
(* BlockLen steps (BlockLen^3 steps in all), which keeps the depth of the  *)
(* evaluation small; the steps taken are those of the loop.                *)

\* g_vals[i][:h].sum(): s = <<harmonics summed so far, their sum>>
RECURSIVE SumRun(_, _, _, _, _, _)
SumRun(info, i, h, s, level, fuel) ==
    IF s[1] >= h \/ s[1] >= info.n_max \/ fuel = 0 THEN s
    ELSE SumRun(info, i, h,
                IF level = 0 THEN <<s[1] + 1, s[2] + g_vals(info, i, s[1] + 1)>>
                ELSE SumRun(info, i, h, s, level - 1, BlockLen),
                level, fuel - 1)

PrefixSum(info, i, h) == SumRun(info, i, h, <<0, 0>>, 2, BlockLen)[2]

\* the while loop of create_harmonics_functions: s = <<harmonics_needed[i], total_lum>>
WhileCond(info, i, tol, s) ==
    /\ 100 * s[2] < (100 - tol) * f_vals(info, i)
    /\ s[1] < info.n_max

RECURSIVE WhileRun(_, _, _, _, _, _)
WhileRun(info, i, tol, s, level, fuel) ==
    IF ~WhileCond(info, i, tol, s) \/ fuel = 0 THEN s
    ELSE WhileRun(info, i, tol,
                  IF level = 0 THEN <<s[1] + 1, s[2] + g_vals(info, i, s[1] + 1)>>
                  ELSE WhileRun(info, i, tol, s, level - 1, BlockLen),
                  level, fuel - 1)

\* harmonics_needed[i] = harmonics_needed[i - 1] (LoopStartFresh starts every grid point from 2 again)
LoopStartFresh(prev, i) == 2

LoopStart(prev, i) == prev[i - 1]

\* harmonics_needed[1..i]; grid points count from 1, harmonics_needed[1] = 2
RECURSIVE HarmonicsUpTo(_, _, _)
HarmonicsUpTo(info, tol, i) ==
    IF i = 1 THEN <<2>>
    ELSE LET prev  == HarmonicsUpTo(info, tol, i - 1)
             start == LoopStart(prev, i)
             done  == WhileRun(info, i, tol, <<start, PrefixSum(info, i, start)>>,
                               2, BlockLen)
         IN  Append(prev, done[1])

harmonics_needed(info, tol) == HarmonicsUpTo(info, tol, e_len(info))

\* g_vals[i].argmax(), as a harmonic: s = <<harmonics seen, first best harmonic, its value>>
RECURSIVE ArgRun(_, _, _, _, _)
ArgRun(info, i, s, level, fuel) ==
    IF s[1] >= info.n_max \/ fuel = 0 THEN s
    ELSE ArgRun(info, i,
                IF level = 0
                THEN LET n == s[1] + 1
                         v == g_vals(info, i, n)
                     IN  IF v > s[3] THEN <<n, n, v>> ELSE <<n, s[2], s[3]>>
                ELSE ArgRun(info, i, s, level - 1, BlockLen),
                level, fuel - 1)

dominant_harmonics(info) ==
    [i \in 1..e_len(info) |-> ArgRun(info, i, <<1, 1, g_vals(info, i, 1)>>, 2, BlockLen)[2]]

SeqMax(y) == CHOOSE m \in {y[j] : j \in 1..Len(y)} : \A j \in 1..Len(y) : y[j] <= m

----------------------------------------------------------------------------
(* scipy interp1d(x, y, bounds_error=False, fill_value=(below, above)),    *)
(* linear: the value is the exact rational <<numerator, denominator>>      *)

Segment(x, e) ==
    LET c == Cardinality({j \in 1..Len(x) : x[j] < e})
    IN  IF c < 1 THEN 1 ELSE IF c > Len(x) - 1 THEN Len(x) - 1 ELSE c

interp1d(fn, e) ==
    IF e < fn.x[1] THEN <<fn.fill[1], 1>>
    ELSE IF e > fn.x[Len(fn.x)] THEN <<fn.fill[2], 1>>
    ELSE LET lo == Segment(fn.x, e)
             dx == fn.x[lo + 1] - fn.x[lo]
         IN  <<fn.y[lo] * dx + (fn.y[lo + 1] - fn.y[lo]) * (e - fn.x[lo]), dx>>

\* np.ceil
Ceil(q) == 0 - ((0 - q[1]) \div q[2])

\* np.round: halves go to the even neighbour
Round(q) ==
    LET lo == q[1] \div q[2]
        r2 == 2 * (q[1] % q[2])
    IN  IF r2 < q[2] THEN lo
        ELSE IF r2 > q[2] THEN lo + 1
        ELSE IF lo % 2 = 0 THEN lo ELSE lo + 1

\* the closure harmonics_required(e) and dominant_harmonic(e)
harmonics_required_at(fn, e) == Ceil(interp1d(fn, e))

dominant_harmonic_at(fn, e) == Round(interp1d(fn, e))

FillBelowOne(hn) == <<1, SeqMax(hn)>>

FillValue(hn) == <<2, SeqMax(hn)>>

\* n_range[g_vals.argmax(axis=1)] depends on the table only: tabulated once
DominantHarmonics == [info \in Tables |-> dominant_harmonics(info)]

create_harmonics_functions(info, tol) ==
    LET hn == harmonics_needed(info, tol)
    IN  [harmonics_required |-> [x |-> info.e_range, y |-> hn, fill |-> FillValue(hn)],
         dominant_harmonic  |-> [x |-> info.e_range, y |-> DominantHarmonics[info],
                                 fill |-> FillValue(hn)]]

\* the functions depend on the table and the tolerance only: tabulated once
HarmonicsFunctions == [info \in Tables, tol \in Tols |-> create_harmonics_functions(info, tol)]

----------------------------------------------------------------------------
(* find_eccentric_transition *)

\* np.linspace(0.0, 0.2, ScanLen), in scan steps
scan_range == [k \in 1..ScanLen |-> k - 1]

\* circular_lum < lum_within_tolerance
BelowTolPlus(tol, k) ==
    100 * peters_g2(scan_range[k]) < (100 + tol) * peters_f(scan_range[k])

BelowTol(tol, k) ==
    100 * peters_g2(scan_range[k]) < (100 - tol) * peters_f(scan_range[k])

\* e_range[mask][0] (LastOf takes [-1])
LastOf(S) == CHOOSE k \in S : \A j \in S : j <= k

FirstOf(S) == CHOOSE k \in S : \A j \in S : k <= j

\* find_eccentric_transition that returns the last scanned point when no point
\* is below tolerance
find_transition_silent(tol) ==
    LET mask == {k \in 1..ScanLen : BelowTol(tol, k)}
    IN  IF mask = {} THEN [raised |-> "none", ecc_tol |-> scan_range[ScanLen]]
        ELSE [raised |-> "none", ecc_tol |-> scan_range[FirstOf(mask)]]

find_eccentric_transition(tol) ==
    LET mask == {k \in 1..ScanLen : BelowTol(tol, k)}
    IN  IF mask = {} THEN [raised |-> "IndexError", ecc_tol |-> Unset]
        ELSE [raised |-> "none", ecc_tol |-> scan_range[FirstOf(mask)]]

----------------------------------------------------------------------------
(* numpy boolean masks and masked assignment *)

Sources == 1..n_sources

AllTrue == [i \in Sources |-> TRUE]

any(mask) == \E i \in DOMAIN mask : mask[i]

Not(mask) == [i \in DOMAIN mask |-> ~mask[i]]

And(a, b) == [i \in DOMAIN a |-> a[i] /\ b[i]]

\* the indices a mask selects, in order
Indices(mask) == SelectSeq([i \in DOMAIN mask |-> i], LAMBDA i : mask[i])

\* arr[mask]
Compress(arr, mask) == [k \in 1..Len(Indices(mask)) |-> arr[Indices(mask)[k]]]

\* arr[mask] = vals
Scatter(arr, mask, vals) ==
    [i \in DOMAIN arr |->
        IF mask[i] THEN vals[Cardinality({j \in 1..i : mask[j]})] ELSE arr[i]]

\* np.zeros(n_sources)
Zero == [f |-> "zero", src |-> 0, hr |-> 0]

zeros == [i \in Sources |-> Zero]

----------------------------------------------------------------------------
(* The external collaborators: utils.determine_stationarity and the four   *)
(* SNR formulas of legwork.snr.  A formula's value for a source is the     *)
(* record of the formula, the source and the harmonic cutoff it was given. *)

determine_stationarity(t_evol) == [i \in Sources |-> f_dot[i] * t_evol < stat_tol]

Formula(name, mask, hr) ==
    [k \in 1..Len(Indices(mask)) |-> [f |-> name, src |-> Indices(mask)[k], hr |-> hr]]

Invocation(name, mask, hr, t_obs) ==
    [f |-> name, srcs |-> Indices(mask), hr |-> hr, t_obs |-> t_obs]

----------------------------------------------------------------------------
(* get_source_mask *)

CircularEccentricLax(i) == ecc[i] >= ecc_tol

CircularEccentric(i) == ecc[i] > ecc_tol

get_source_mask(circular, stationary, t_obs) ==
    IF circular \notin {"None", "True", "False"}
    THEN [raised |-> "ValueError: circular must be None, True or False",
          ret |-> None, calls |-> << >>]
    ELSE LET circular_mask ==
                 [i \in Sources |->
                     IF circular = "None" THEN TRUE
                     ELSE IF circular = "True" THEN ecc[i] <= ecc_tol
                     ELSE CircularEccentric(i)]
         IN  IF stationary = "None"
             THEN [raised |-> "none", ret |-> And(circular_mask, AllTrue), calls |-> << >>]
             ELSE IF stationary \in {"True", "False"}
             THEN LET stat == determine_stationarity(t_obs)
                      stat_mask == IF stationary = "False" THEN Not(stat) ELSE stat
                  IN  [raised |-> "none", ret |-> And(circular_mask, stat_mask),
                       calls |-> << Invocation("determine_stationarity", AllTrue, 0, t_obs) >>]
             ELSE [raised |-> "ValueError: stationary must be None, True or False",
                   ret |-> None, calls |-> << >>]

----------------------------------------------------------------------------
(* get_snr_stationary and get_snr_evolving: the two methods have the same  *)
(* body up to the formulas they call.  s = [snr, calls] is the local snr   *)
(* array and the invocations made so far.                                  *)

harmonic_groups == << <<1, 10>>, <<10, 100>>, <<100, 1000>>, <<1000, 10000>> >>

\* snr[mask] = formula(...[mask], harmonics_required=hr)
Assign(s, name, mask, hr, t_obs) ==
    [snr   |-> Scatter(s.snr, mask, Formula(name, mask, hr)),
     calls |-> Append(s.calls, Invocation(name, mask, hr, t_obs))]

\* hr = upper - 1
CutoffUpper(upper) == upper

Cutoff(upper) == upper - 1

\* harm_mask: harmonics_required >= lower and harmonics_required < upper
InGroup(h, lower, upper) == h >= lower /\ h < upper

RECURSIVE ForGroups(_, _, _, _, _)
ForGroups(s, name, ind_ecc, t_obs, g) ==
    IF g > Len(harmonic_groups) THEN s
    ELSE LET lower == harmonic_groups[g][1]
             upper == harmonic_groups[g][2]
             match == [i \in Sources |->
                          /\ InGroup(harmonics_required_at(harmonics_required, ecc[i]),
                                     lower, upper)
                          /\ ind_ecc[i]]
         IN  ForGroups(IF any(match) THEN Assign(s, name, match, Cutoff(upper), t_obs) ELSE s,
                       name, ind_ecc, t_obs, g + 1)

\* the return snr[which_sources] of both methods
Return(arr, mask) == Compress(arr, mask)

snr_path(circ_name, ecc_name, t_obs, which_sources) ==
    LET which    == IF which_sources = None THEN AllTrue ELSE which_sources
        ind_ecc  == [i \in Sources |-> ecc[i] > ecc_tol /\ which[i]]
        ind_circ == [i \in Sources |-> ecc[i] <= ecc_tol /\ which[i]]
        s0 == [snr |-> zeros, calls |-> << >>]
        s1 == IF any(ind_circ) THEN Assign(s0, circ_name, ind_circ, 0, t_obs) ELSE s0
        s2 == IF any(ind_ecc) THEN ForGroups(s1, ecc_name, ind_ecc, t_obs, 1) ELSE s1
    IN  [ret |-> Return(s2.snr, which), calls |-> s2.calls]

get_snr_stationary(t_obs, which_sources) ==
    snr_path("snr_circ_stationary", "snr_ecc_stationary", t_obs, which_sources)

get_snr_evolving(t_obs, which_sources) ==
    snr_path("snr_circ_evolving", "snr_ecc_evolving", t_obs, which_sources)

\* Source.get_snr
EvolMask(stat_mask) == Not(stat_mask)

Source_get_snr(t_obs) ==
    LET m         == get_source_mask("None", "True", t_obs)
        stat_mask == m.ret
        evol_mask == EvolMask(stat_mask)
        stat == get_snr_stationary(t_obs, stat_mask)
        snr1 == IF any(stat_mask) THEN Scatter(zeros, stat_mask, stat.ret) ELSE zeros
        evol == get_snr_evolving(t_obs, evol_mask)
        snr2 == IF any(evol_mask) THEN Scatter(snr1, evol_mask, evol.ret) ELSE snr1
    IN  [ret   |-> snr2,
         calls |-> m.calls \o (IF any(stat_mask) THEN stat.calls ELSE << >>)
                           \o (IF any(evol_mask) THEN evol.calls ELSE << >>)]

\* Stationary.get_snr and Evolving.get_snr
Stationary_get_snr(t_obs) == get_snr_stationary(t_obs, None)

Evolving_get_snr(t_obs) == get_snr_evolving(t_obs, None)

----------------------------------------------------------------------------
(* The object: construction and the public methods *)

TriArgs == {"None", "True", "False", "1"}

Classes == {"Source", "Stationary", "Evolving"}

Batches(S) == UNION {[1..n -> S] : n \in 1..MaxSources}

\* Sensitivity-curve configurations.  Of a configuration dict only its t_obs
\* entry is kept: << >> is a dict without the key, <<t>> one with t_obs = t.
ConfigTObs == {8}

Configs == {<< >>} \cup {<<t>> : t \in ConfigTObs}

\* a dict handed to the object: the one the caller keeps ("held", its content
\* is heap) or one the caller built for the call and dropped ("fresh")
ParamArgs == {[id |-> "held", content |-> << >>]}
                 \cup {[id |-> "fresh", content |-> c] : c \in Configs}

\* the current content of a dict
Deref(p) == IF p.id = "held" THEN heap ELSE p.content

\* default_params["t_obs"], in years
DefaultTObs == 4

\* default_params.update(self._sc_params), then the curve built from it; a
\* curve is known by the observation time it was built for
default_params_update(content) == IF content = << >> THEN DefaultTObs ELSE content[1]

power_spectral_density(t_obs) == [t_obs |-> t_obs]

\* set_sc: the value assigned to self.sc
set_sc(interpolate, content) ==
    IF interpolate THEN power_spectral_density(default_params_update(content)) ELSE None

\* set_g: the value assigned to self.g
set_g(interpolate_g) == IF interpolate_g THEN [kind |-> "cubic"] ELSE None

\* The arguments of __init__ besides ecc, gw_lum_tol, stat_tol, interpolate_sc
\* and sc_params: which of f_orb and a are given, which argument (if any) has
\* no units, which array (if any) has a length of its own.
ArrayArgs == {"m_1", "m_2", "dist", "f_orb", "a", "ecc"}

ArgShapes ==
    [given : {"f_orb", "a", "both", "neither"},
     unitless : {"none", "m_1", "m_2", "dist", "f_orb", "a"},
     odd : {"none"} \cup ArrayArgs,
     interpolate_g : BOOLEAN]

GoodArgs == [given |-> "f_orb", unitless |-> "none", odd |-> "none", interpolate_g |-> TRUE]

\* the attributes before __init__ has assigned them, and no call made yet
Blank ==
    /\ phase = "args"
    /\ n_sources = Unset
    /\ _gw_lum_tol = Unset
    /\ harmonics_required = None
    /\ dominant_harmonic = None
    /\ ecc_tol = Unset
    /\ snr = None
    /\ lens = None
    /\ sc = None
    /\ self_g = None
    /\ op = "none"
    /\ ret = None
    /\ raised = "none"
    /\ calls = << >>
    /\ warned = FALSE
    /\ computed = {}

\* the batch handed to __init__
Batch(S) ==
    \E batch \in Batches(S) :
        /\ ecc = [i \in DOMAIN batch |-> batch[i][1]]
        /\ f_dot = [i \in DOMAIN batch |-> batch[i][2]]

\* Construction with well-formed arguments and the default configuration, over
\* every table, class, batch and tolerance.
Init ==
    /\ Blank
    /\ lum_info \in Tables
    /\ cls \in Classes
    /\ Batch(SourceTypes)
    /\ stat_tol \in StatTols
    /\ last_tol \in Tols
    /\ args = GoodArgs
    /\ interpolate_sc = TRUE
    /\ _sc_params = [id |-> "fresh", content |-> << >>]
    /\ heap = << >>

\* update_gw_lum_tol without its find_eccentric_transition() statement
update_without_transition(gw_lum_tol) ==
    /\ _gw_lum_tol' = gw_lum_tol
    /\ harmonics_required' = HarmonicsFunctions[lum_info, gw_lum_tol].harmonics_required
    /\ dominant_harmonic' = HarmonicsFunctions[lum_info, gw_lum_tol].dominant_harmonic
    /\ ecc_tol' = ecc_tol
    /\ raised' = find_eccentric_transition(gw_lum_tol).raised

\* update_gw_lum_tol: the three statements; an IndexError of the last one leaves
\* the first two done
update_gw_lum_tol(gw_lum_tol) ==
    LET fns == HarmonicsFunctions[lum_info, gw_lum_tol]
        tr  == find_eccentric_transition(gw_lum_tol)
    IN  /\ _gw_lum_tol' = gw_lum_tol
        /\ harmonics_required' = fns.harmonics_required
        /\ dominant_harmonic' = fns.dominant_harmonic
        /\ ecc_tol' = IF tr.raised = "none" THEN tr.ecc_tol ELSE ecc_tol
        /\ raised' = tr.raised

\* len() of an array handed to __init__
OtherLen(n) == (n % MaxSources) + 1

arg_len(x) ==
    IF x = "ecc" THEN Len(ecc)
    ELSE IF args.odd \in {"ecc", x} THEN OtherLen(Len(ecc))
    ELSE Len(ecc)

is_given(x) == args.given \in {x, "both"}

\* numpy broadcasting of arrays of the lengths S: the common length, 0 when
\* there is none
Broadcast(S) ==
    LET m == CHOOSE n \in S : \A k \in S : k <= n
    IN  IF S \subseteq {1, m} THEN m ELSE 0

\* lines 98-99: f_orb or a, whichever was not supplied, from the other
converted == IF args.given = "a" THEN {"get_f_orb_from_a"}
             ELSE IF args.given = "f_orb" THEN {"get_a_from_f_orb"}
             ELSE {}

converted_len ==
    Broadcast({arg_len(IF args.given = "a" THEN "a" ELSE "f_orb"),
               arg_len("m_1"), arg_len("m_2")})

\* the lengths of m_1, m_2, dist, f_orb, a, ecc after lines 98-111
array_lens ==
    [x \in ArrayArgs |->
        IF x \in {"f_orb", "a"} /\ ~is_given(x) THEN converted_len ELSE arg_len(x)]

\* lines 105-107: the arguments that must have units
unit_check_fails == args.unitless \in {"m_1", "m_2", "dist"} \cup {x \in {"f_orb", "a"} : is_given(x)}

\* lines 115-117 (length_check_all takes .all() of the comparisons)
length_check_all(l) == \A x \in ArrayArgs : l[x] # l["m_1"] \/ x = "m_1"

length_check(l) == \E x \in ArrayArgs : l[x] # l["m_1"]

\* The conversion is handed its arguments before their units are checked: on
\* an argument without units it may return or raise.
ConversionOutcomes ==
    IF converted # {} /\ args.unitless \in {"m_1", "m_2", args.given}
    THEN {"returns", "raises"}
    ELSE {"returns"}

\* lines 93-118: the exception raised, if any, and what was computed before it
checks(conversion) ==
    IF args.given = "neither"
    THEN [raised |-> "ValueError: Either f_orb or a must be specified", computed |-> {}]
    ELSE IF converted # {} /\ converted_len = 0
    THEN [raised |-> "ValueError: operands could not be broadcast together",
          computed |-> converted]
    ELSE IF conversion = "raises"
    THEN [raised |-> "UnitConversionError", computed |-> converted]
    ELSE IF unit_check_fails
    THEN [raised |-> "AssertionError: must have units", computed |-> converted]
    ELSE IF length_check(array_lens)
    THEN [raised |-> "ValueError: All input arrays must have the same length",
          computed |-> converted]
    ELSE [raised |-> "none", computed |-> converted]

\* Source.__init__, the conversion of lines 98-99 having the given outcome
construct(conversion) ==
    /\ phase = "args"
    /\ op' = "__init__"
    /\ ret' = None
    /\ calls' = << >>
    /\ warned' = FALSE
    /\ UNCHANGED <<lum_info, cls, ecc, f_dot, stat_tol, last_tol, interpolate_sc,
                   _sc_params, heap>>
    /\ IF checks(conversion).raised # "none"
       THEN /\ raised' = checks(conversion).raised
            /\ computed' = checks(conversion).computed
            /\ phase' = "failed"
            /\ UNCHANGED <<n_sources, snr, lens, _gw_lum_tol, harmonics_required,
                           dominant_harmonic, ecc_tol, self_g, sc, args>>
       ELSE /\ lens' = [m_1 |-> array_lens["m_1"], m_2 |-> array_lens["m_2"],
                        m_c |-> Broadcast({array_lens["m_1"], array_lens["m_2"]}),
                        dist |-> array_lens["dist"], f_orb |-> array_lens["f_orb"],
                        a |-> array_lens["a"]]
            /\ snr' = None
            /\ n_sources' = array_lens["m_1"]
            /\ update_gw_lum_tol(last_tol)
            /\ IF raised' = "none"
               THEN /\ self_g' = set_g(args.interpolate_g)
                    /\ sc' = set_sc(interpolate_sc, Deref(_sc_params))
                    /\ computed' = checks(conversion).computed \cup
                           {"chirp_mass", "harmonics_required", "ecc_tol", "g", "sc"}
                    /\ phase' = "ready"
                    /\ args' = None
               ELSE /\ computed' = checks(conversion).computed \cup {"chirp_mass", "harmonics_required"}
                    /\ phase' = "failed"
                    /\ UNCHANGED <<self_g, sc, args>>

\* Source.__init__
__init__ ==
    /\ phase = "args"
    /\ \E conversion \in ConversionOutcomes : construct(conversion)

UpdateGwLumTol ==
    /\ phase = "ready"
    /\ op = "none"
    /\ \E gw_lum_tol \in Tols :
          /\ update_gw_lum_tol(gw_lum_tol)
          /\ last_tol' = gw_lum_tol
    /\ op' = "update_gw_lum_tol"
    /\ ret' = None
    /\ calls' = << >>
    /\ UNCHANGED <<phase, lum_info, cls, ecc, f_dot, stat_tol, n_sources, snr>>
    /\ UNCHANGED <<conf, warned, computed>>

GetSourceMask ==
    /\ phase = "ready"
    /\ op = "none"
    /\ \E circular \in TriArgs, stationary \in TriArgs, t_obs \in TObs :
          LET r == get_source_mask(circular, stationary, t_obs)
          IN  /\ ret' = r.ret
              /\ raised' = r.raised
              /\ calls' = r.calls
    /\ op' = "get_source_mask"
    /\ UNCHANGED <<phase, lum_info, last_tol, heap, args, warned, computed>>
    /\ UNCHANGED attrs

\* lines 412-420 of Source.get_snr: whether the warning is printed
sc_warning(t_obs) ==
    LET sc_t_obs == IF Deref(_sc_params) # << >> THEN Deref(_sc_params)[1] ELSE t_obs
    IN  t_obs # sc_t_obs

GetSnr ==
    /\ phase = "ready"
    /\ op = "none"
    /\ \E t_obs \in TObs :
          LET r == IF cls = "Stationary" THEN Stationary_get_snr(t_obs)
                   ELSE IF cls = "Evolving" THEN Evolving_get_snr(t_obs)
                   ELSE Source_get_snr(t_obs)
          IN  /\ snr' = r.ret
              /\ ret' = r.ret
              /\ calls' = r.calls
              /\ warned' = (cls = "Source" /\ sc_warning(t_obs))
    /\ raised' = "none"
    /\ op' = "get_snr"
    /\ UNCHANGED <<phase, lum_info, last_tol, cls, ecc, f_dot, stat_tol, n_sources,
                   _gw_lum_tol, harmonics_required, dominant_harmonic, ecc_tol>>
    /\ UNCHANGED <<conf, computed>>

WhichArgs == {None} \cup [Sources -> BOOLEAN]

GetSnrStationary ==
    /\ phase = "ready"
    /\ op = "none"
    /\ \E t_obs \in TObs, which_sources \in WhichArgs :
          LET r == get_snr_stationary(t_obs, which_sources)
          IN  /\ ret' = r.ret
              /\ calls' = r.calls
    /\ raised' = "none"
    /\ op' = "get_snr_stationary"
    /\ UNCHANGED <<phase, lum_info, last_tol, heap, args, warned, computed>>
    /\ UNCHANGED attrs

GetSnrEvolving ==
    /\ phase = "ready"
    /\ op = "none"
    /\ \E t_obs \in TObs, which_sources \in WhichArgs :
          LET r == get_snr_evolving(t_obs, which_sources)
          IN  /\ ret' = r.ret
              /\ calls' = r.calls
    /\ raised' = "none"
    /\ op' = "get_snr_evolving"
    /\ UNCHANGED <<phase, lum_info, last_tol, heap, args, warned, computed>>
    /\ UNCHANGED attrs

\* create_harmonics_functions() called on its own: rebuilds both functions from
\* the stored tolerance
CreateHarmonicsFunctions ==
    /\ phase = "ready"
    /\ op = "none"
    /\ harmonics_required' = HarmonicsFunctions[lum_info, _gw_lum_tol].harmonics_required
    /\ dominant_harmonic' = HarmonicsFunctions[lum_info, _gw_lum_tol].dominant_harmonic
    /\ op' = "create_harmonics_functions"
    /\ ret' = None
    /\ raised' = "none"
    /\ calls' = << >>
    /\ UNCHANGED <<phase, lum_info, last_tol, cls, ecc, f_dot, stat_tol, n_sources,
                   _gw_lum_tol, ecc_tol, snr>>
    /\ UNCHANGED <<conf, warned, computed>>

\* find_eccentric_transition() called on its own: scans with the stored tolerance
FindEccentricTransition ==
    /\ phase = "ready"
    /\ op = "none"
    /\ LET tr == find_eccentric_transition(_gw_lum_tol)
       IN  /\ ecc_tol' = IF tr.raised = "none" THEN tr.ecc_tol ELSE ecc_tol
           /\ raised' = tr.raised
    /\ op' = "find_eccentric_transition"
    /\ ret' = None
    /\ calls' = << >>
    /\ UNCHANGED <<phase, lum_info, last_tol, cls, ecc, f_dot, stat_tol, n_sources,
                   _gw_lum_tol, harmonics_required, dominant_harmonic, snr>>
    /\ UNCHANGED <<conf, warned, computed>>

\* The single-threaded caller takes the result of the call that has returned before
\* it makes the next call: op, ret, raised and calls describe one call.
TakeResult ==
    /\ phase = "ready"
    /\ op # "none"
    /\ op' = "none"
    /\ ret' = None
    /\ raised' = "none"
    /\ calls' = << >>
    /\ warned' = FALSE
    /\ computed' = {}
    /\ UNCHANGED <<phase, lum_info, last_tol, heap, args>>
    /\ UNCHANGED attrs

Next ==
    \/ __init__
    \/ TakeResult
    \/ UpdateGwLumTol
    \/ CreateHarmonicsFunctions
    \/ FindEccentricTransition
    \/ GetSourceMask
    \/ GetSnr
    \/ GetSnrStationary
    \/ GetSnrEvolving

Spec == Init /\ [][Next]_vars

----------------------------------------------------------------------------
(* Construction with every shape of arguments, the sensitivity curve, the  *)
(* strain methods and the dict the caller keeps, over one table and small  *)
(* batches.                                                                *)

\* update_sc_params: dicts compare by content; the reference is stored
update_sc_params(sc_params) ==
    IF Deref(sc_params) # Deref(_sc_params)
    THEN /\ _sc_params' = sc_params
         /\ sc' = set_sc(interpolate_sc, Deref(sc_params))
    ELSE UNCHANGED <<_sc_params, sc>>

\* update_sc_params that also drops the stored SNR
UpdateScParamsResetting ==
    /\ phase = "ready"
    /\ op = "none"
    /\ \E sc_params \in ParamArgs : update_sc_params(sc_params)
    /\ snr' = None
    /\ op' = "update_sc_params"
    /\ UNCHANGED <<ret, raised, calls, warned, computed>>
    /\ UNCHANGED <<phase, lum_info, last_tol, heap, args>>
    /\ UNCHANGED <<cls, ecc, f_dot, stat_tol, n_sources, _gw_lum_tol, harmonics_required,
                   dominant_harmonic, ecc_tol, lens, interpolate_sc, self_g>>

UpdateScParams ==
    /\ phase = "ready"
    /\ op = "none"
    /\ \E sc_params \in ParamArgs : update_sc_params(sc_params)
    /\ op' = "update_sc_params"
    /\ UNCHANGED <<ret, raised, calls, warned, computed>>
    /\ UNCHANGED <<phase, lum_info, last_tol, heap, args>>
    /\ UNCHANGED <<cls, ecc, f_dot, stat_tol, n_sources, _gw_lum_tol, harmonics_required,
                   dominant_harmonic, ecc_tol, snr, lens, interpolate_sc, self_g>>

\* set_sc() called on its own
SetSc ==
    /\ phase = "ready"
    /\ op = "none"
    /\ sc' = set_sc(interpolate_sc, Deref(_sc_params))
    /\ op' = "set_sc"
    /\ UNCHANGED <<ret, raised, calls, warned, computed>>
    /\ UNCHANGED <<phase, lum_info, last_tol, heap, args>>
    /\ UNCHANGED <<cls, ecc, f_dot, stat_tol, n_sources, _gw_lum_tol, harmonics_required,
                   dominant_harmonic, ecc_tol, snr, lens, interpolate_sc, _sc_params, self_g>>

\* set_g(interpolate_g) called on its own
SetG ==
    /\ phase = "ready"
    /\ op = "none"
    /\ \E interpolate_g \in BOOLEAN : self_g' = set_g(interpolate_g)
    /\ op' = "set_g"
    /\ UNCHANGED <<ret, raised, calls, warned, computed>>
    /\ UNCHANGED <<phase, lum_info, last_tol, heap, args>>
    /\ UNCHANGED <<cls, ecc, f_dot, stat_tol, n_sources, _gw_lum_tol, harmonics_required,
                   dominant_harmonic, ecc_tol, snr, lens, interpolate_sc, _sc_params, sc>>

\* get_h_0_n and get_h_c_n: the strain of the selected sources at one harmonic
Harmonics == {2}

StrainArgs == {w \in WhichArgs : w = None \/ any(w)}

get_strain(name, harmonics, which_sources) ==
    LET which == IF which_sources = None THEN AllTrue ELSE which_sources
    IN  [ret |-> Formula(name, which, harmonics),
         calls |-> << Invocation(name, which, harmonics, 0) >>]

GetH0N ==
    /\ phase = "ready"
    /\ op = "none"
    /\ \E harmonics \in Harmonics, which_sources \in StrainArgs :
          /\ ret' = get_strain("h_0_n", harmonics, which_sources).ret
          /\ calls' = get_strain("h_0_n", harmonics, which_sources).calls
    /\ op' = "get_h_0_n"
    /\ UNCHANGED <<raised, warned, computed>>
    /\ UNCHANGED <<phase, lum_info, last_tol, heap, args>>
    /\ UNCHANGED attrs

GetHCN ==
    /\ phase = "ready"
    /\ op = "none"
    /\ \E harmonics \in Harmonics, which_sources \in StrainArgs :
          /\ ret' = get_strain("h_c_n", harmonics, which_sources).ret
          /\ calls' = get_strain("h_c_n", harmonics, which_sources).calls
    /\ op' = "get_h_c_n"
    /\ UNCHANGED <<raised, warned, computed>>
    /\ UNCHANGED <<phase, lum_info, last_tol, heap, args>>
    /\ UNCHANGED attrs

\* The caller changes the dict it keeps; the object holds a reference to it
\* when that dict was handed to __init__ or update_sc_params.
CallerChangesDict ==
    /\ phase = "ready"
    /\ op = "none"
    /\ \E content \in Configs \ {heap} : heap' = content
    /\ UNCHANGED <<op, ret, raised, calls, warned, computed>>
    /\ UNCHANGED <<phase, lum_info, last_tol, args>>
    /\ UNCHANGED attrs

ConfigSourceTypes == { <<1, 3>> }

InitConfig ==
    /\ Blank
    /\ lum_info = OffsetTable
    /\ Batch(ConfigSourceTypes)
    /\ stat_tol \in StatTols
    /\ \/ /\ args \in ArgShapes
          /\ cls = "Source"
          /\ last_tol = 5
          /\ interpolate_sc = TRUE
          /\ _sc_params = [id |-> "fresh", content |-> << >>]
          /\ heap = << >>
       \/ /\ args = GoodArgs
          /\ cls \in Classes
          /\ last_tol \in Tols
          /\ interpolate_sc \in BOOLEAN
          /\ _sc_params \in ParamArgs
          /\ heap \in Configs

NextConfig ==
    \/ Next
    \/ UpdateScParams
    \/ SetSc
    \/ SetG
    \/ GetH0N
    \/ GetHCN
    \/ CallerChangesDict

SpecConfig == InitConfig /\ [][NextConfig]_vars

----------------------------------------------------------------------------
(* Properties *)

SnrFormulas == {"snr_circ_stationary", "snr_ecc_stationary",
                "snr_circ_evolving", "snr_ecc_evolving"}

StationaryFormulas == {"snr_circ_stationary", "snr_ecc_stationary"}

EvolvingFormulas == {"snr_circ_evolving", "snr_ecc_evolving"}

EccFormulas == {"snr_ecc_stationary", "snr_ecc_evolving"}

CircFormulas == {"snr_circ_stationary", "snr_circ_evolving"}

SrcSet(c) == {c.srcs[j] : j \in DOMAIN c.srcs}

\* the formula invocations of the finished call that were handed source i
Covering(i) == {k \in DOMAIN calls : calls[k].f \in SnrFormulas /\ i \in SrcSet(calls[k])}

HR(i) == harmonics_required_at(harmonics_required, ecc[i])

GridPoints == 0..EccOne

\* the last update_gw_lum_tol (or the constructor) returned normally
LastUpdateOk == find_eccentric_transition(last_tol).raised = "none"

\* C1: Source.get_snr returns n_sources values, and every index i holds the
\* value of exactly one formula invocation, the one of the branch
\* (stationary or evolving, circular or eccentric) that source i belongs to;
\* no index stays at the initial zero.
C1_EveryIndexFromItsBranch ==
    (phase = "ready" /\ op = "get_snr" /\ cls = "Source") =>
        LET t == calls[1].t_obs
            branch(i) ==
                IF f_dot[i] * t < stat_tol
                THEN (IF ecc[i] <= ecc_tol THEN "snr_circ_stationary" ELSE "snr_ecc_stationary")
                ELSE (IF ecc[i] <= ecc_tol THEN "snr_circ_evolving" ELSE "snr_ecc_evolving")
        IN  /\ Len(ret) = n_sources
            /\ \A i \in Sources :
                  /\ Cardinality(Covering(i)) = 1
                  /\ \A k \in Covering(i) :
                        /\ calls[k].f = branch(i)
                        /\ ret[i] = [f |-> calls[k].f, src |-> i, hr |-> calls[k].hr]

\* C2: bucketing is lossless: in a finished get_snr every eccentric source
\* has its required harmonic count in exactly one of the four buckets and
\* was handed to exactly one eccentric formula invocation.
C2_BucketingLossless ==
    (phase = "ready" /\ op = "get_snr") =>
        \A i \in Sources :
            ecc[i] > ecc_tol =>
                /\ Cardinality({g \in DOMAIN harmonic_groups :
                                   /\ HR(i) >= harmonic_groups[g][1]
                                   /\ HR(i) < harmonic_groups[g][2]}) = 1
                /\ Cardinality({k \in Covering(i) : calls[k].f \in EccFormulas}) = 1

\* C3: whenever the harmonic functions are built, harmonics_required(0) is 2,
\* with eccentricity 0 on the table's grid or below its lowest point.
C3_ZeroNeedsTwo ==
    (harmonics_required # None) => harmonics_required_at(harmonics_required, 0) = 2

\* the functions were just rebuilt for a table whose grid starts above 0
C3_Witness ==
    /\ phase = "ready"
    /\ op = "update_gw_lum_tol"
    /\ lum_info.e_range[1] > 0
    /\ harmonics_required.y[1] = 2
    /\ harmonics_required.y[Len(harmonics_required.y)] > 2

\* the calls that build the harmonic functions
Builders == {"__init__", "update_gw_lum_tol", "create_harmonics_functions"}

\* C4: the harmonics_required a call has just built never decreases with
\* eccentricity: the per-grid-point counts do not decrease along the grid and
\* neither does the ceiling of the interpolation, for eccentricities below,
\* inside and above the grid.
C4_NonDecreasing ==
    (op \in Builders) =>
        /\ \A j \in 1..(Len(harmonics_required.y) - 1) :
              harmonics_required.y[j] <= harmonics_required.y[j + 1]
        /\ \A e1 \in GridPoints, e2 \in GridPoints :
              e1 <= e2 => harmonics_required_at(harmonics_required, e1)
                              <= harmonics_required_at(harmonics_required, e2)

\* a grid point that on its own would need fewer harmonics than the point
\* before it keeps that point's count, and the counts grow along the grid
C4_Witness ==
    /\ phase = "ready"
    /\ op = "update_gw_lum_tol"
    /\ raised = "none"
    /\ \E j \in 2..Len(harmonics_required.y) :
          /\ harmonics_required.y[j] = harmonics_required.y[j - 1]
          /\ harmonics_required.y[j] > 2
          /\ WhileRun(lum_info, j, _gw_lum_tol, <<2, PrefixSum(lum_info, j, 2)>>, 2, BlockLen)[1]
                 < harmonics_required.y[j]
    /\ harmonics_required_at(harmonics_required, 0)
           < harmonics_required_at(harmonics_required, EccOne)

derived == <<_gw_lum_tol, harmonics_required, dominant_harmonic, ecc_tol>>

\* C5: after construction and any updates that returned normally the stored
\* tolerance, both functions and ecc_tol are the ones derived from the
\* tolerance of the latest update (or of the constructor), and a step of any
\* other method leaves all four as they were.
C5_DerivedFromLatestUpdate ==
    /\ [](phase = "ready" /\ LastUpdateOk =>
            /\ _gw_lum_tol = last_tol
            /\ harmonics_required = HarmonicsFunctions[lum_info, last_tol].harmonics_required
            /\ dominant_harmonic = HarmonicsFunctions[lum_info, last_tol].dominant_harmonic
            /\ ecc_tol = find_eccentric_transition(last_tol).ecc_tol)
    /\ [][op' \notin {"__init__", "update_gw_lum_tol"} => derived' = derived]_vars

\* a second update has replaced the constructor's tolerance and threshold
C5_Witness ==
    /\ phase = "ready"
    /\ op = "update_gw_lum_tol"
    /\ raised = "none"
    /\ _gw_lum_tol = 5
    /\ ecc_tol = find_eccentric_transition(5).ecc_tol
    /\ ecc_tol # find_eccentric_transition(0).ecc_tol

\* C6: an update from one tolerance to another, both returning normally on the
\* same table, moves ecc_tol and the required harmonics monotonically: the
\* smaller tolerance has the smaller or equal ecc_tol and, at every
\* eccentricity, the larger or equal harmonics_required.
C6_UpdateMonotone ==
    [][(/\ phase = "ready"
        /\ find_eccentric_transition(_gw_lum_tol).raised = "none"
        /\ op' = "update_gw_lum_tol"
        /\ raised' = "none")
       => LET small == IF _gw_lum_tol <= _gw_lum_tol' THEN 0 ELSE 1
              tolerance == IF small = 0 THEN <<ecc_tol, ecc_tol'>> ELSE <<ecc_tol', ecc_tol>>
              hr(e) == IF small = 0
                       THEN <<harmonics_required_at(harmonics_required, e),
                              harmonics_required_at(harmonics_required', e)>>
                       ELSE <<harmonics_required_at(harmonics_required', e),
                              harmonics_required_at(harmonics_required, e)>>
          IN  /\ tolerance[1] <= tolerance[2]
              /\ \A e \in GridPoints : hr(e)[1] >= hr(e)[2]]_vars

\* an update to a larger tolerance has raised ecc_tol and lowered the count
\* needed at the top of the grid
C6_Witness ==
    /\ phase = "ready"
    /\ op = "update_gw_lum_tol"
    /\ raised = "none"
    /\ _gw_lum_tol = 5
    /\ ecc_tol > find_eccentric_transition(0).ecc_tol
    /\ harmonics_required_at(harmonics_required, EccOne)
           < harmonics_required_at(HarmonicsFunctions[lum_info, 0].harmonics_required, EccOne)

\* the sources a finished get_snr selected for the path of formula name
Selected(name) ==
    IF cls = "Stationary" THEN (IF name \in StationaryFormulas THEN Sources ELSE {})
    ELSE IF cls = "Evolving" THEN (IF name \in EvolvingFormulas THEN Sources ELSE {})
    ELSE {i \in Sources : (f_dot[i] * calls[1].t_obs < stat_tol) <=> (name \in StationaryFormulas)}

\* C8: in a finished get_snr, get_snr_stationary or get_snr_evolving no formula
\* was invoked on an empty set of sources; a circular formula was invoked on
\* circular sources only; an eccentric formula was invoked at most once per
\* bucket, with cutoff the bucket's upper bound minus one, on eccentric sources
\* whose required count lies in the bucket and so does not exceed the cutoff;
\* and in get_snr a bucket (or the circular formula) of a path was invoked
\* whenever a source selected for the path falls in it.
C8_InvocationsMatchBuckets ==
    (phase = "ready" /\ op \in {"get_snr", "get_snr_stationary", "get_snr_evolving"}) =>
        /\ \A k \in DOMAIN calls :
              LET c == calls[k]
              IN  /\ c.srcs # << >>
                  /\ c.f \in CircFormulas => \A i \in SrcSet(c) : ecc[i] <= ecc_tol
                  /\ c.f \in EccFormulas =>
                        /\ \E g \in DOMAIN harmonic_groups :
                              /\ c.hr = harmonic_groups[g][2] - 1
                              /\ \A i \in SrcSet(c) :
                                    /\ ecc[i] > ecc_tol
                                    /\ HR(i) >= harmonic_groups[g][1]
                                    /\ HR(i) < harmonic_groups[g][2]
                        /\ \A i \in SrcSet(c) : HR(i) <= c.hr
                        /\ \A k2 \in DOMAIN calls :
                              (calls[k2].f = c.f /\ calls[k2].hr = c.hr) => k2 = k
        /\ op = "get_snr" =>
              /\ \A name \in EccFormulas, g \in DOMAIN harmonic_groups : \A i \in Selected(name) :
                    (/\ ecc[i] > ecc_tol
                     /\ HR(i) >= harmonic_groups[g][1]
                     /\ HR(i) < harmonic_groups[g][2])
                    => \E k \in DOMAIN calls :
                          /\ calls[k].f = name
                          /\ calls[k].hr = harmonic_groups[g][2] - 1
                          /\ i \in SrcSet(calls[k])
              /\ \A name \in CircFormulas : \A i \in Selected(name) :
                    ecc[i] <= ecc_tol
                    => \E k \in DOMAIN calls : calls[k].f = name /\ i \in SrcSet(calls[k])

\* one call has invoked the eccentric formula for two different buckets
C8_Witness ==
    /\ phase = "ready"
    /\ op \in {"get_snr", "get_snr_stationary", "get_snr_evolving"}
    /\ \E k1 \in DOMAIN calls, k2 \in DOMAIN calls :
          /\ calls[k1].f \in EccFormulas
          /\ calls[k2].f = calls[k1].f
          /\ calls[k1].hr < calls[k2].hr

\* C9: a finished Stationary.get_snr (Evolving.get_snr) has not evaluated the
\* stationarity, has invoked stationary (evolving) formulas only, and returns
\* and stores n_sources values, the value at index i being the one a
\* stationary (evolving) formula produced for source i.
C9_ForcedPathEvaluatesAll ==
    (phase = "ready" /\ op = "get_snr" /\ cls \in {"Stationary", "Evolving"}) =>
        LET allowed == IF cls = "Stationary" THEN StationaryFormulas ELSE EvolvingFormulas
        IN  /\ \A k \in DOMAIN calls : calls[k].f \in allowed
            /\ Len(ret) = n_sources
            /\ snr = ret
            /\ \A i \in Sources : ret[i].src = i /\ ret[i].f \in allowed

Valid == {"None", "True", "False"}

\* C10: get_source_mask raises a ValueError naming circular (else stationary)
\* when that argument is not None, True or False and raises nothing for the
\* nine valid combinations; the masks of the four (circular, stationary)
\* combinations of True and False are pairwise disjoint and cover every
\* source; (None, None) gives the all-True mask; and the call changes no
\* attribute.
C10_SourceMask ==
    /\ [](phase = "ready" =>
            /\ \A circular \in TriArgs, stationary \in TriArgs, t_obs \in TObs :
                  get_source_mask(circular, stationary, t_obs).raised =
                      IF circular \notin Valid
                      THEN "ValueError: circular must be None, True or False"
                      ELSE IF stationary \notin Valid
                      THEN "ValueError: stationary must be None, True or False"
                      ELSE "none"
            /\ \A t_obs \in TObs, i \in Sources :
                  /\ Cardinality({cs \in {"True", "False"} \X {"True", "False"} :
                                     get_source_mask(cs[1], cs[2], t_obs).ret[i]}) = 1
                  /\ get_source_mask("None", "None", t_obs).ret[i])
    /\ [][op' = "get_source_mask" =>
            /\ attrs' = attrs
            /\ (raised' = "none" => DOMAIN ret' = Sources)]_vars

\* a call with valid arguments returned a mask that takes some sources and
\* leaves others, one of them exactly at the threshold
C10_Witness ==
    /\ phase = "ready"
    /\ op = "get_source_mask"
    /\ raised = "none"
    /\ \E i \in Sources, j \in Sources : ret[i] /\ ~ret[j] /\ ecc[j] = ecc_tol

\* C11: when the unit check of __init__ fails, no derived quantity has been
\* computed: no conversion between a and f_orb, no chirp mass, no harmonic
\* functions, no threshold, no sensitivity curve.
C11_UnitCheckBeforeDerived ==
    (op = "__init__" /\ raised = "AssertionError: must have units") => computed = {}

\* the arrays the caller supplied to __init__
Supplied == {"m_1", "m_2", "dist", "ecc"} \cup {x \in {"f_orb", "a"} : is_given(x)}

\* C12: __init__ aborts with a ValueError when neither f_orb nor a is given,
\* and (the arguments having their units) when the supplied arrays differ in
\* length; a constructed object has m_1, m_2, m_c, dist, f_orb, a and ecc of
\* length n_sources, and no later step changes these lengths.
C12_SameLength ==
    /\ []((op = "__init__" /\ args # None /\ args.given = "neither") =>
             /\ phase = "failed"
             /\ raised = "ValueError: Either f_orb or a must be specified")
    /\ []((/\ phase # "args"
           /\ args # None
           /\ args.given # "neither"
           /\ ~unit_check_fails
           /\ \E x \in Supplied, y \in Supplied : arg_len(x) # arg_len(y)) =>
             /\ phase = "failed"
             /\ raised \in {"ValueError: All input arrays must have the same length",
                            "ValueError: operands could not be broadcast together"})
    /\ [](phase = "ready" =>
             /\ Len(ecc) = n_sources
             /\ \A x \in DOMAIN lens : lens[x] = n_sources)
    /\ [][phase = "ready" => (lens' = lens /\ ecc' = ecc /\ n_sources' = n_sources)]_vars

\* a construction was aborted by the length check
C12_Witness ==
    /\ phase = "failed"
    /\ args.odd # "none"
    /\ raised = "ValueError: All input arrays must have the same length"

\* C13: a get_snr whose t_obs differs from the observation time the cached
\* curve was built for prints the warning.
C13_MismatchWarns ==
    (/\ phase = "ready"
     /\ op = "get_snr"
     /\ sc # None
     /\ \E k \in DOMAIN calls : calls[k].t_obs # sc.t_obs) => warned

\* C14: after an update_sc_params call the cached curve is the one built from
\* the defaults overridden by the current content of the cached configuration.
C14_CurveMatchesConfig ==
    (phase = "ready" /\ op = "update_sc_params" /\ interpolate_sc) =>
        sc = power_spectral_density(default_params_update(Deref(_sc_params)))

\* C15: the stored SNR is None after construction and only a get_snr step
\* changes it.
C15_SnrOnlyByGetSnr ==
    /\ []((op = "__init__" /\ phase = "ready") => snr = None)
    /\ [][(phase = "ready" /\ op' # "get_snr") => snr' = snr]_vars

\* a stored SNR has survived a change of the sensitivity-curve configuration
C15_Witness ==
    /\ phase = "ready"
    /\ op = "update_sc_params"
    /\ snr # None
    /\ sc # None
    /\ \E i \in DOMAIN snr : snr[i].f \in SnrFormulas

\* no scanned point has g(2,e) < (1 - tol) F(e)
NoCrossing(tol) ==
    \A e \in 0..(ScanLen - 1) : ~(100 * peters_g2(e) < (100 - tol) * peters_f(e))

ScanCalls == {"__init__", "update_gw_lum_tol", "find_eccentric_transition"}

\* C16: when no scanned point is below tolerance the scan raises
\* IndexError to the caller of find_eccentric_transition, of update_gw_lum_tol
\* and of the constructor, which is aborted with ecc_tol never assigned.
C16_NoCrossingRaises ==
    (op \in ScanCalls /\ _gw_lum_tol # Unset /\ NoCrossing(_gw_lum_tol)) =>
        /\ raised = "IndexError"
        /\ op = "__init__" => (phase = "failed" /\ ecc_tol = Unset)

\* an update with a tolerance of 1 has raised
C16_Witness ==
    /\ phase = "ready"
    /\ op = "update_gw_lum_tol"
    /\ NoCrossing(_gw_lum_tol)
    /\ raised = "IndexError"

\* C16 in the words of the specification: when no scanned point is below
\* tolerance the call fails silently, raising no error to its caller.
C16_NoCrossingSilent ==
    (op \in ScanCalls /\ _gw_lum_tol # Unset /\ NoCrossing(_gw_lum_tol)) => raised = "none"

\* C17: after an update_gw_lum_tol that did not complete normally the stored
\* tolerance, the two functions and ecc_tol all belong to one tolerance.
C17_FailedUpdateConsistent ==
    (phase = "ready" /\ op = "update_gw_lum_tol" /\ raised # "none") =>
        \E tol \in Tols :
            /\ _gw_lum_tol = tol
            /\ harmonics_required = HarmonicsFunctions[lum_info, tol].harmonics_required
            /\ dominant_harmonic = HarmonicsFunctions[lum_info, tol].dominant_harmonic
            /\ ecc_tol = find_eccentric_transition(tol).ecc_tol

====
